---- MODULE Spec2Model ----
(***************************************************************************)
(* The container entry point `train` (bootstrap on a bare virtual machine, *)
(* hyperparameters, training subprocess, upload of the results, failure    *)
(* file) and the notebook's build-and-push, training and hosting cells.    *)
(*                                                                         *)
(* Text values: a command-line element or a JSON scalar is a record        *)
(* [type, text]; a path is a pair (directory, base name) whose text is     *)
(* directory/name, so that split('/')[-1] is the base name.                *)
(***************************************************************************)
EXTENDS Integers, Sequences, FiniteSets, TLC

\* ------------------------------------------------------------- bounds
\* longest hyperparameters mapping
MaxParams == 2
\* longest listing of /opt/ml/model
MaxEntries == 3
\* most sub-directories of /opt/ml/model/export/Servo
MaxServo == 2
\* most *.pb files in one sub-directory
MaxPb == 2

\* ------------------------------------------------------------- values
Str(s) == [type |-> "str", text |-> s]
Num(s) == [type |-> "number", text |-> s]

Range(s) == {s[i] : i \in 1..Len(s)}
Distinct(s) == \A i, j \in 1..Len(s) : i # j => s[i] # s[j]
SeqsUpTo(S, n) == UNION {[1..k -> S] : k \in 0..n}
DistinctSeqs(S, n) == {s \in SeqsUpTo(S, n) : Distinct(s)}

\* ------------------------------------------------------------- paths
prefix == "/opt/ml/"
\* os.path.join(prefix, rel): prefix ends with '/', so no separator is added
input_path == prefix \o "input/data"
output_path == prefix \o "output"
model_path == prefix \o "model"
param_path == prefix \o "input/config/hyperparameters.json"
channel_name == "training"
training_path == input_path \o "/" \o channel_name
training_script == "cifar10.py"
default_params == <<Str("--model-dir"), Str(model_path)>>

\* a path found by glob or listdir: directory and base name
Entry(d, n) == [dir |-> d, name |-> n]
PathText(e) == e.dir \o "/" \o e.name
\* file.split('/')[-1]
BaseName(e) == e.name
\* os.path.join(model_path, file): file is absolute, so the result is file
JoinModelPath(e) == PathText(e)

\* ------------------------------------------------------------- the environment
PlatformDirs == {"/opt/ml", "/opt/ml/code", "/opt/ml/input", "/opt/ml/input/config",
                 "/opt/ml/input/data", "/opt/ml/input/data/training",
                 "/opt/ml/model", "/opt/ml/output"}
ImageDirs == {"/opt/ml", "/opt/ml/code"}
\* s3keys.json in the working directory
S3KeysFiles == {"missing", "invalid", "nokeys", "ok"}
\* the hyperparameters.json document
HpKeys == {"train-steps", "model-dir", "batch-size"}
HpValues == {Str("1"), Num("1")}
HpObjects == {s \in SeqsUpTo(HpKeys \X HpValues, MaxParams) :
                 \A i, j \in 1..Len(s) : i # j => s[i][1] # s[j][1]}
HpDocs == {[kind |-> "invalid", items |-> <<>>], [kind |-> "array", items |-> <<>>]}
          \cup {[kind |-> "object", items |-> s] : s \in HpObjects}
ReturnCodes == {0, 1, 2, -9}
TfRecords == <<"eval.tfrecords", "train.tfrecords", "validation.tfrecords">>
BootDirs == <<"/opt/ml/output", "/opt/ml/input", "/opt/ml/model",
              "/opt/ml/input/config", "/opt/ml/input/data",
              "/opt/ml/input/data/training">>
ParentDir == [d \in Range(BootDirs) |->
                 CASE d = "/opt/ml/input/config" -> "/opt/ml/input"
                   [] d = "/opt/ml/input/data" -> "/opt/ml/input"
                   [] d = "/opt/ml/input/data/training" -> "/opt/ml/input/data"
                   [] OTHER -> "/opt/ml"]
ModelNames == {"eval", "export", "checkpoint", "graph.pbtxt"}
ModelListings == {[i \in 1..Len(s) |-> Entry(model_path, s[i])] :
                     s \in DistinctSeqs(ModelNames, MaxEntries)}
ServoPath == "/opt/ml/model/export/Servo"
ServoNames == {"1594387", "1594390"}
ServoListings == DistinctSeqs(ServoNames, MaxServo)
PbNames == {"saved_model.pb", "frozen.pb"}
PbListings == DistinctSeqs(PbNames, MaxPb)

NoKeys == [loaded |-> FALSE, hasKeys |-> FALSE, bucket |-> "", datakey |-> ""]
Message(t) == [text |-> t, rc |-> 0, cmd |-> <<>>, err |-> ""]
NoException == [raised |-> FALSE, type |-> "", msg |-> Message("")]
NoFailure == [written |-> FALSE, head |-> "", msg |-> Message(""), sep |-> "", trc |-> ""]
NoDoc == [kind |-> "none", items |-> <<>>]
Line(t) == [text |-> t, list |-> <<>>]
NotListed == [listed |-> FALSE, missing |-> FALSE, dirs |-> <<>>]
\* os.listdir raised: /opt/ml/model/export holds no directory Servo
ServoMissing == [listed |-> FALSE, missing |-> TRUE, dirs |-> <<>>]

VARIABLES
    pc,             \* position of the train script
    dirs,           \* existing directories
    filesAt,        \* existing regular files (path text)
    s3keysFile,     \* state of s3keys.json
    hpDoc,          \* the document in hyperparameters.json
    inputAtStart,   \* whether /opt/ml/input was a directory at start-up
    ec2,            \* the script's flag ec2 (None is FALSE)
    s3keys,         \* the loaded s3keys.json
    s3keysRead,     \* s3keys.json has been opened
    created,        \* directories created by the script, in order
    downloads,      \* S3 downloads done, in order
    training_params,\* the parsed hyperparameters
    paramsRead,     \* open + json.load of the hyperparameters file succeeded
    cmd_args,       \* the arguments made from the hyperparameters
    train_cmd,      \* the command line handed to _run
    launched,       \* training subprocesses started
    procDone,       \* the subprocess has terminated
    return_code,    \* its return code
    captured,       \* the standard error that communicate() captured
    stdout,         \* what the script printed on standard output
    stderr,         \* what the script printed on standard error
    listing,        \* the list the upload loop iterates over
    idx,            \* entries of listing already visited
    files,          \* the script's variable files
    servo,          \* what os.listdir('/opt/ml/model/export/Servo') returned
    uploads,        \* S3 uploads done, in order
    exc,            \* the exception raised in the main block
    failure,        \* content of /opt/ml/output/failure
    exited,         \* the process has terminated
    exitCode,       \* its exit status
    \* ---- the notebook
    cell,           \* index of the next code cell to run (0: the notebook is not run)
    cfgRegion,      \* region of the current AWS configuration ("": none defined)
    awsAccount,     \* account of the caller's credentials
    repos,          \* existing ECR repositories, as <<region, name>>
    endpoints,      \* existing endpoints
    sh,             \* shell variables and effects of the build-and-push cell
    py,             \* Python variables of the notebook kernel
    calls           \* calls the notebook made to the platform, in order

trainVars == <<pc, dirs, filesAt, s3keysFile, hpDoc, inputAtStart, ec2, s3keys,
               s3keysRead, created, downloads, training_params, paramsRead,
               cmd_args, train_cmd, launched, procDone, return_code, captured,
               stdout, stderr, listing, idx,
               files, servo, uploads, exc, failure, exited, exitCode>>
nbVars == <<cell, cfgRegion, awsAccount, repos, endpoints, sh, py, calls>>
vars == <<trainVars, nbVars>>

\* ------------------------------------------------------------- start-up
TrainFresh ==
    /\ ec2 = FALSE
    /\ s3keys = NoKeys
    /\ s3keysRead = FALSE
    /\ created = <<>>
    /\ downloads = <<>>
    /\ training_params = NoDoc
    /\ paramsRead = FALSE
    /\ cmd_args = <<>>
    /\ train_cmd = <<>>
    /\ launched = 0
    /\ procDone = FALSE
    /\ return_code = 0
    /\ captured = ""
    /\ stdout = <<>>
    /\ stderr = <<>>
    /\ listing = <<>>
    /\ idx = 0
    /\ files = <<>>
    /\ servo = NotListed
    /\ uploads = <<>>
    /\ exc = NoException
    /\ failure = NoFailure
    /\ exited = FALSE
    /\ exitCode = 0

\* the train script starts: on the platform every directory of the container
\* contract is mounted; on a bare machine only the image's /opt/ml/code is sure
InitTrain ==
    /\ pc = "start"
    /\ inputAtStart \in BOOLEAN
    /\ hpDoc \in HpDocs
    /\ IF inputAtStart
       THEN /\ dirs = PlatformDirs
            /\ filesAt \in SUBSET {param_path}
            /\ s3keysFile \in {"missing", "ok"}
       ELSE /\ dirs \in {ImageDirs \cup pre : pre \in SUBSET {"/opt/ml/output", "/opt/ml/model"}}
            /\ filesAt \in SUBSET {"/opt/ml/code/hyperparameters.json"}
            /\ s3keysFile \in S3KeysFiles
    /\ TrainFresh

TrainIdle ==
    /\ pc = "idle"
    /\ inputAtStart = TRUE
    /\ hpDoc = NoDoc
    /\ dirs = {}
    /\ filesAt = {}
    /\ s3keysFile = "missing"
    /\ TrainFresh

\* an exception nobody catches: the interpreter prints it and exits with 1
Uncaught ==
    /\ pc' = "done"
    /\ exited' = TRUE
    /\ exitCode' = 1

\* an exception raised inside the try block of __main__
Raise(t, m) ==
    /\ pc' = "except"
    /\ exc' = [raised |-> TRUE, type |-> t, msg |-> m]

\* not os.path.isdir('/opt/ml/input')
NeedsBootstrapFlipped(ds) == "/opt/ml/input" \in ds
NeedsBootstrap(ds) == "/opt/ml/input" \notin ds

CheckInput ==
    /\ pc = "start"
    /\ pc' = IF NeedsBootstrap(dirs) THEN "boot_keys" ELSE "main_open"
    /\ UNCHANGED <<nbVars, dirs, filesAt, s3keysFile, hpDoc, inputAtStart, ec2, s3keys,
                   s3keysRead, created, downloads, training_params, paramsRead,
                   cmd_args, train_cmd, launched, procDone, return_code, captured, stdout, stderr,
                   listing, idx, files, servo, uploads, exc, failure, exited, exitCode>>

\* s3 = boto3.client('s3'); with open('s3keys.json','r') as f: s3keys = json.load(f)
LoadS3Keys ==
    /\ pc = "boot_keys"
    /\ s3keysRead' = TRUE
    /\ IF s3keysFile \in {"missing", "invalid"}
       THEN /\ Uncaught
            /\ UNCHANGED s3keys
       ELSE /\ s3keys' = [loaded |-> TRUE, hasKeys |-> s3keysFile = "ok",
                          bucket |-> "bucket", datakey |-> "cifar-data"]
            /\ pc' = "boot_mkdir"
            /\ UNCHANGED <<exited, exitCode>>
    /\ UNCHANGED <<nbVars, dirs, filesAt, s3keysFile, hpDoc, inputAtStart, ec2,
                   created, downloads, training_params, paramsRead,
                   cmd_args, train_cmd, launched, procDone, return_code, captured, stdout, stderr,
                   listing, idx, files, servo, uploads, exc, failure>>

\* the six os.mkdir calls, in order; os.mkdir raises when the directory exists
\* or its parent does not
MkDir ==
    /\ pc = "boot_mkdir"
    /\ LET d == BootDirs[Len(created) + 1] IN
       IF d \in dirs \/ ParentDir[d] \notin dirs
       THEN /\ Uncaught
            /\ UNCHANGED <<dirs, created>>
       ELSE /\ dirs' = dirs \cup {d}
            /\ created' = Append(created, d)
            /\ pc' = IF Len(created) + 1 = Len(BootDirs) THEN "boot_download" ELSE "boot_mkdir"
            /\ UNCHANGED <<exited, exitCode>>
    /\ UNCHANGED <<nbVars, filesAt, s3keysFile, hpDoc, inputAtStart, ec2, s3keys,
                   s3keysRead, downloads, training_params, paramsRead,
                   cmd_args, train_cmd, launched, procDone, return_code, captured, stdout, stderr,
                   listing, idx, files, servo, uploads, exc, failure>>

\* the files the bootstrap downloads, in order
BootRecordsShort == <<"eval.tfrecords", "train.tfrecords">>
BootRecords == TfRecords

\* s3.download_file(s3keys['bucket'], f"{s3keys['datakey']}/<name>", '/opt/ml/input/data/training/<name>')
Download ==
    /\ pc = "boot_download"
    /\ LET n == BootRecords[Len(downloads) + 1]
           dest == "/opt/ml/input/data/training/" \o n IN
       \E ok \in BOOLEAN :
         IF ~s3keys.hasKeys \/ ~ok
         THEN /\ Uncaught
              /\ UNCHANGED <<filesAt, downloads>>
         ELSE /\ downloads' = Append(downloads, [bucket |-> s3keys.bucket,
                                                 key |-> s3keys.datakey \o "/" \o n,
                                                 dest |-> dest])
              /\ filesAt' = filesAt \cup {dest}
              /\ pc' = IF Len(downloads) + 1 = Len(BootRecords) THEN "boot_mv" ELSE "boot_download"
              /\ UNCHANGED <<exited, exitCode>>
    /\ UNCHANGED <<nbVars, dirs, s3keysFile, hpDoc, inputAtStart, ec2, s3keys,
                   s3keysRead, created, training_params, paramsRead,
                   cmd_args, train_cmd, launched, procDone, return_code, captured, stdout, stderr,
                   listing, idx, files, servo, uploads, exc, failure>>

\* os.system('mv /opt/ml/code/hyperparameters.json /opt/ml/input/config'):
\* the status of mv is not looked at
MvTarget(ok, fs) ==
    IF ok /\ "/opt/ml/code/hyperparameters.json" \in fs
    THEN (fs \ {"/opt/ml/code/hyperparameters.json"}) \cup {param_path}
    ELSE fs

MoveHyperparameters ==
    /\ pc = "boot_mv"
    /\ \E ok \in BOOLEAN : filesAt' = MvTarget(ok, filesAt)
    /\ ec2' = TRUE
    /\ pc' = "main_open"
    /\ UNCHANGED <<nbVars, dirs, s3keysFile, hpDoc, inputAtStart, s3keys,
                   s3keysRead, created, downloads, training_params, paramsRead,
                   cmd_args, train_cmd, launched, procDone, return_code, captured, stdout, stderr,
                   listing, idx, files, servo, uploads, exc, failure, exited, exitCode>>

\* ------------------------------------------------------------- __main__
envVars == <<s3keysFile, hpDoc, inputAtStart, nbVars>>
bootVars == <<dirs, ec2, s3keys, s3keysRead, created, downloads>>
procVars == <<launched, procDone, return_code, captured>>
loopVars == <<listing, idx, files, servo, uploads>>
endVars == <<failure, stderr, exited, exitCode>>

\* with open(param_path, 'r') as tc: training_params = json.load(tc)
OpenParams ==
    /\ pc = "main_open"
    /\ IF param_path \notin filesAt
       THEN /\ Raise("FileNotFoundError", Message(param_path))
            /\ UNCHANGED <<training_params, paramsRead>>
       ELSE IF hpDoc.kind = "invalid"
       THEN /\ Raise("JSONDecodeError", Message("Expecting value"))
            /\ UNCHANGED <<training_params, paramsRead>>
       ELSE /\ training_params' = hpDoc
            /\ paramsRead' = TRUE
            /\ pc' = "main_cmd"
            /\ UNCHANGED exc
    /\ UNCHANGED <<envVars, bootVars, procVars, loopVars, endVars, filesAt,
                   cmd_args, train_cmd, stdout>>

\* _hyperparameters_to_cmd_args(hyperparameters), for the (key, value) pairs
\* of hyperparameters.items() in iteration order
RECURSIVE ArgsValueAsText(_)
ArgsValueAsText(items) ==
    IF items = <<>> THEN <<>>
    ELSE <<Str("--" \o Head(items)[1]), Str(Head(items)[2].text)>>
             \o ArgsValueAsText(Tail(items))
RECURSIVE _hyperparameters_to_cmd_args(_)
_hyperparameters_to_cmd_args(items) ==
    IF items = <<>> THEN <<>>
    ELSE <<Str("--" \o Head(items)[1]), Head(items)[2]>>
             \o _hyperparameters_to_cmd_args(Tail(items))

python_executable == Str("/usr/bin/python")

\* train_cmd = [python_executable, training_script] + default_params + cmd_args
TrainCmdArgsFirst(args) ==
    <<python_executable, Str(training_script)>> \o args \o default_params
TrainCmd(args) ==
    <<python_executable, Str(training_script)>> \o default_params \o args

\* python_executable = sys.executable; cmd_args = ...; train_cmd = ...
BuildCmd ==
    /\ pc = "main_cmd"
    /\ IF training_params.kind # "object"
       THEN /\ Raise("AttributeError", Message("no attribute 'items'"))
            /\ UNCHANGED <<cmd_args, train_cmd>>
       ELSE /\ cmd_args' = _hyperparameters_to_cmd_args(training_params.items)
            /\ train_cmd' = TrainCmd(_hyperparameters_to_cmd_args(training_params.items))
            /\ pc' = "main_run"
            /\ UNCHANGED exc
    /\ UNCHANGED <<envVars, bootVars, procVars, loopVars, endVars, filesAt,
                   training_params, paramsRead, stdout>>

\* subprocess.Popen(cmd, ...): every element of cmd must be a string
PopenAccepts(cmd) == \A i \in 1..Len(cmd) : cmd[i].type = "str"

\* _run(train_cmd), first half: process = subprocess.Popen(cmd, ...)
RunPopen ==
    /\ pc = "main_run"
    /\ IF PopenAccepts(train_cmd)
       THEN /\ launched' = launched + 1
            /\ pc' = "main_wait"
            /\ UNCHANGED exc
       ELSE /\ Raise("TypeError", Message("expected str, bytes or os.PathLike object"))
            /\ UNCHANGED launched
    /\ UNCHANGED <<envVars, bootVars, loopVars, endVars, filesAt, procDone, return_code, captured,
                   training_params, paramsRead, cmd_args, train_cmd, stdout>>

\* if return_code:
RunFailsNegativeOnly(rc) == rc < 0
RunFailsPositiveOnly(rc) == rc > 0
RunFails(rc) == rc # 0

\* error_msg = 'Return Code: {}, CMD: {}, Err: {}'.format(return_code, cmd, stderr)
ErrorMsgNoStderr(rc, cmd, err) ==
    [text |-> "Return Code: {}, CMD: {}, Err: {}", rc |-> rc, cmd |-> cmd, err |-> ""]
ErrorMsg(rc, cmd, err) ==
    [text |-> "Return Code: {}, CMD: {}, Err: {}", rc |-> rc, cmd |-> cmd, err |-> err]

\* _run(train_cmd), second half: process.communicate(); return_code = process.poll();
\* if return_code: raise Exception(error_msg)
RunWait ==
    /\ pc = "main_wait"
    /\ \E rc \in ReturnCodes, err \in {"", "Traceback"} :
         /\ procDone' = TRUE
         /\ return_code' = rc
         /\ captured' = err
         /\ IF RunFails(rc)
            THEN Raise("Exception", ErrorMsg(rc, train_cmd, err))
            ELSE /\ pc' = "main_print"
                 /\ UNCHANGED exc
    /\ UNCHANGED <<envVars, bootVars, loopVars, endVars, filesAt, launched,
                   training_params, paramsRead, cmd_args, train_cmd, stdout>>

\* print('Training complete.'); if ec2:
PrintComplete ==
    /\ pc = "main_print"
    /\ stdout' = Append(stdout, Line("Training complete."))
    /\ pc' = IF ec2 THEN "main_glob" ELSE "main_exit"
    /\ UNCHANGED <<envVars, bootVars, procVars, loopVars, endVars, filesAt, exc,
                   training_params, paramsRead, cmd_args, train_cmd>>

\* files = glob('/opt/ml/model/*'); for file in files: the loop keeps the
\* list object it started with
GlobModel ==
    /\ pc = "main_glob"
    /\ \E l \in ModelListings :
         /\ listing' = l
         /\ files' = l
    /\ idx' = 0
    /\ pc' = "main_loop"
    /\ UNCHANGED <<envVars, bootVars, procVars, endVars, filesAt, exc, servo, uploads,
                   training_params, paramsRead, cmd_args, train_cmd, stdout>>

Upload(src, name) == [src |-> src, bucket |-> s3keys.bucket, key |-> "cifar_results/" \o name]

\* file not in ['/opt/ml/model/eval','/opt/ml/model/export']
IsPlainAlsoEval(file) == PathText(file) # "/opt/ml/model/export"
IsPlain(file) == PathText(file) \notin {"/opt/ml/model/eval", "/opt/ml/model/export"}

\* the index [0] of os.listdir(...)[0] and of files[0]
LastOf(s) == s[Len(s)]
FirstOf(s) == s[1]

\* for file in files: the iterator keeps the list that files named when the
\* loop began, whatever files is bound to later
LoopListRebound == files
LoopList == listing

\* one iteration of the loop, or its end
LoopStep ==
    /\ pc = "main_loop"
    /\ IF idx >= Len(LoopList)
       THEN /\ pc' = "main_exit"
            /\ UNCHANGED <<idx, files, servo, uploads, stdout, exc>>
       ELSE LET file == LoopList[idx + 1] IN
            IF IsPlain(file)
            THEN \E ok \in BOOLEAN :
                   /\ stdout' = Append(stdout, Line(PathText(file)))
                   /\ UNCHANGED <<files, servo>>
                   /\ IF ok
                      THEN /\ uploads' = Append(uploads, Upload(JoinModelPath(file), BaseName(file)))
                           /\ idx' = idx + 1
                           /\ UNCHANGED <<pc, exc>>
                      ELSE /\ Raise("S3UploadFailedError", Message(PathText(file)))
                           /\ UNCHANGED <<idx, uploads>>
            ELSE IF PathText(file) = "/opt/ml/model/export"
            THEN \E present \in BOOLEAN, listed \in ServoListings, pbs \in PbListings, ok \in BOOLEAN :
                   IF ~present
                   THEN /\ servo' = ServoMissing
                        /\ stdout' = Append(stdout, Line(PathText(file)))
                        /\ Raise("FileNotFoundError", Message(ServoPath))
                        /\ UNCHANGED <<idx, files, uploads>>
                   ELSE
                   /\ servo' = [listed |-> TRUE, missing |-> FALSE, dirs |-> listed]
                   /\ IF listed = <<>>
                      THEN /\ stdout' = Append(stdout, Line(PathText(file)))
                           /\ Raise("IndexError", Message("list index out of range"))
                           /\ UNCHANGED <<idx, files, uploads>>
                      ELSE LET dir == FirstOf(listed)
                               found == [i \in 1..Len(pbs) |-> Entry(ServoPath \o "/" \o dir, pbs[i])]
                           IN /\ files' = found
                              /\ stdout' = stdout \o <<Line(PathText(file)), [text |-> "", list |-> found]>>
                              /\ IF found = <<>>
                                 THEN /\ Raise("IndexError", Message("list index out of range"))
                                      /\ UNCHANGED <<idx, uploads>>
                                 ELSE IF ok
                                 THEN /\ uploads' = Append(uploads, Upload(PathText(FirstOf(found)),
                                                                           BaseName(FirstOf(found))))
                                      /\ idx' = idx + 1
                                      /\ UNCHANGED <<pc, exc>>
                                 ELSE /\ Raise("S3UploadFailedError", Message(PathText(FirstOf(found))))
                                      /\ UNCHANGED <<idx, uploads>>
            ELSE /\ stdout' = Append(stdout, Line(PathText(file)))
                 /\ idx' = idx + 1
                 /\ UNCHANGED <<pc, files, servo, uploads, exc>>
    /\ UNCHANGED <<envVars, bootVars, procVars, endVars, filesAt, listing,
                   training_params, paramsRead, cmd_args, train_cmd>>

\* sys.exit(0): SystemExit is not an Exception, the handler lets it through
Exit0 ==
    /\ pc = "main_exit"
    /\ pc' = "done"
    /\ exited' = TRUE
    /\ exitCode' = 0
    /\ UNCHANGED <<envVars, bootVars, procVars, loopVars, filesAt, exc, failure, stderr,
                   training_params, paramsRead, cmd_args, train_cmd, stdout>>

\* the text written to the failure file and to standard error
FailureTextNoMessage(e) ==
    [written |-> TRUE, head |-> "Exception during training: ", msg |-> Message(""),
     sep |-> "\n", trc |-> "Traceback: " \o e.type]
FailureText(e) ==
    [written |-> TRUE, head |-> "Exception during training: ", msg |-> e.msg,
     sep |-> "\n", trc |-> "Traceback: " \o e.type]

\* except Exception as e: write <output_path>/failure, print it, sys.exit(255);
\* open(..., 'w') raises when output_path is no directory
Handler ==
    /\ pc = "except"
    /\ pc' = "done"
    /\ exited' = TRUE
    /\ IF output_path \in dirs
       THEN /\ failure' = FailureText(exc)
            /\ filesAt' = filesAt \cup {output_path \o "/failure"}
            /\ stderr' = Append(stderr, FailureText(exc))
            /\ exitCode' = 255
       ELSE /\ exitCode' = 1
            /\ UNCHANGED <<failure, filesAt, stderr>>
    /\ UNCHANGED <<envVars, bootVars, procVars, loopVars, exc,
                   training_params, paramsRead, cmd_args, train_cmd, stdout>>

\* ------------------------------------------------------------- the notebook
algorithm_name == "v1-sagemaker-ngc-tf21911-example"
Regions == {"us-east-1", "us-west-2"}
Accounts == {"111122223333", "444455556666"}
endpoint_name == "tf-byoc-end"

NoSh == [account |-> "", region |-> "", fullname |-> "", status |-> 0,
         existed |-> FALSE, creates |-> 0, login |-> "", pushed |-> {}]
NoPy == [role |-> "", bucket |-> "", prefix |-> "", data_location |-> "",
         ecr_image |-> "", trained |-> FALSE, predictor |-> "", deployed |-> {}]

NotebookIdle ==
    /\ cell = "idle"
    /\ cfgRegion = ""
    /\ awsAccount = ""
    /\ repos = {}
    /\ endpoints = {}
    /\ sh = NoSh
    /\ py = NoPy
    /\ calls = <<>>

\* code cells with an effect on the modelled state, top to bottom
CellOrderDeleteFirst ==
    <<"build_vars", "build_describe", "build_create", "build_login", "build_push",
      "role", "fit_local", "session", "upload", "ecr_image", "fit", "deploy",
      "delete", "predict", "end">>
CellOrder ==
    <<"build_vars", "build_describe", "build_create", "build_login", "build_push",
      "role", "fit_local", "session", "upload", "ecr_image", "fit", "deploy",
      "predict", "delete", "end">>
After(c) == CellOrder[(CHOOSE i \in 1..Len(CellOrder) : CellOrder[i] = c) + 1]

InitNotebook ==
    /\ cell = CellOrder[1]
    /\ cfgRegion \in Regions \cup {""}
    /\ awsAccount \in Accounts
    /\ repos \in SUBSET (Regions \X {algorithm_name})
    /\ endpoints \in SUBSET {endpoint_name}
    /\ sh = NoSh
    /\ py = NoPy
    /\ calls = <<>>

Init ==
    \/ InitTrain /\ NotebookIdle
    \/ TrainIdle /\ InitNotebook

awsEnv == <<cfgRegion, awsAccount>>

\* "${account}.dkr.ecr.${region}.amazonaws.com/${algorithm_name}:latest" and
\* '{}.dkr.ecr.{}.amazonaws.com/{}:latest'.format(account, region, algorithm_name)
ImageUrl(account, region, name) ==
    account \o ".dkr.ecr." \o region \o ".amazonaws.com/" \o name \o ":latest"

\* region=$(aws configure get region); region=${region:-us-west-2}
ShRegionNoDefault(configured) == configured
ShRegion(configured) == IF configured = "" THEN "us-west-2" ELSE configured

\* account=$(aws sts ...); region=...; fullname=...
BuildVars ==
    /\ cell = "build_vars"
    /\ sh' = [sh EXCEPT !.account = awsAccount,
                        !.region = ShRegion(cfgRegion),
                        !.fullname = ImageUrl(awsAccount, ShRegion(cfgRegion), algorithm_name)]
    /\ cell' = After(cell)
    /\ UNCHANGED <<trainVars, awsEnv, repos, endpoints, py, calls>>

\* aws ecr describe-repositories --repository-names "${algorithm_name}": no
\* --region is given, so the command uses the configured region and fails
\* (status 255) when none is defined or the repository is not there
DescribeStatus == IF cfgRegion # "" /\ <<cfgRegion, algorithm_name>> \in repos THEN 0 ELSE 255

BuildDescribe ==
    /\ cell = "build_describe"
    /\ sh' = [sh EXCEPT !.status = DescribeStatus,
                        !.existed = <<sh.region, algorithm_name>> \in repos]
    /\ cell' = After(cell)
    /\ UNCHANGED <<trainVars, awsEnv, repos, endpoints, py, calls>>

\* if [ $? -ne 0 ]
MustCreate(status) == status # 0

\* then aws ecr create-repository --repository-name "${algorithm_name}": again
\* in the configured region, and failing without one
BuildCreate ==
    /\ cell = "build_create"
    /\ IF MustCreate(sh.status)
       THEN /\ sh' = [sh EXCEPT !.creates = @ + 1]
            /\ repos' = IF cfgRegion # "" THEN repos \cup {<<cfgRegion, algorithm_name>>} ELSE repos
       ELSE UNCHANGED <<sh, repos>>
    /\ cell' = After(cell)
    /\ UNCHANGED <<trainVars, awsEnv, endpoints, py, calls>>

\* $(aws ecr get-login --region ${region} --no-include-email)
BuildLogin ==
    /\ cell = "build_login"
    /\ sh' = [sh EXCEPT !.login = sh.account \o ".dkr.ecr." \o sh.region \o ".amazonaws.com"]
    /\ cell' = After(cell)
    /\ UNCHANGED <<trainVars, awsEnv, repos, endpoints, py, calls>>

\* docker build; docker tag ${algorithm_name} ${fullname}; docker push ${fullname}:
\* the push is accepted when the repository exists in the registry's region;
\* the cell's last command is rm -rf, so the cell never stops the notebook
BuildPush ==
    /\ cell = "build_push"
    /\ sh' = [sh EXCEPT !.pushed = IF <<sh.region, algorithm_name>> \in repos
                                   THEN {sh.fullname} ELSE {}]
    /\ cell' = After(cell)
    /\ UNCHANGED <<trainVars, awsEnv, repos, endpoints, py, calls>>

\* a Python cell that raises stops the run
Stop == cell' = "stopped"

\* role = get_execution_role(): raises outside a notebook instance
Role ==
    /\ cell = "role"
    /\ \E ok \in BOOLEAN :
         IF ok THEN /\ py' = [py EXCEPT !.role = "execution-role"]
                    /\ cell' = After(cell)
               ELSE /\ Stop
                    /\ UNCHANGED py
    /\ UNCHANGED <<trainVars, awsEnv, repos, endpoints, sh, calls>>

Call(op, where, arg) == [op |-> op, where |-> where, arg |-> arg]

\* Estimator(..., train_instance_type='local', image_name=algorithm_name).fit('file:///tmp/cifar-10-data')
FitLocal ==
    /\ cell = "fit_local"
    /\ calls' = Append(calls, Call("fit", "local", "file:///tmp/cifar-10-data"))
    /\ \E ok \in BOOLEAN : IF ok THEN cell' = After(cell) ELSE Stop
    /\ UNCHANGED <<trainVars, awsEnv, repos, endpoints, sh, py>>

\* sess = sage.Session(); bucket = sess.default_bucket(); prefix = 'cifar-data'
Session ==
    /\ cell = "session"
    /\ py' = [py EXCEPT !.bucket = "sagemaker-" \o cfgRegion \o "-" \o awsAccount,
                        !.prefix = "cifar-data"]
    /\ cell' = After(cell)
    /\ UNCHANGED <<trainVars, awsEnv, repos, endpoints, sh, calls>>

\* data_location = sess.upload_data(WORK_DIRECTORY, bucket=bucket, key_prefix=prefix)
UploadData ==
    /\ cell = "upload"
    /\ calls' = Append(calls, Call("upload_data", "platform", "/tmp/cifar-10-data"))
    /\ \E ok \in BOOLEAN :
         IF ok THEN /\ py' = [py EXCEPT !.data_location = "s3://" \o py.bucket \o "/" \o py.prefix]
                    /\ cell' = After(cell)
               ELSE /\ Stop
                    /\ UNCHANGED py
    /\ UNCHANGED <<trainVars, awsEnv, repos, endpoints, sh>>

\* region = my_session.region_name: None without a configured region, and
\* '{}'.format(None) is 'None'
PyRegion(configured) == IF configured = "" THEN "None" ELSE configured

\* account = client.get_caller_identity()['Account']; ecr_image = '...'.format(...)
EcrImage ==
    /\ cell = "ecr_image"
    /\ py' = [py EXCEPT !.ecr_image = ImageUrl(awsAccount, PyRegion(cfgRegion), algorithm_name)]
    /\ cell' = After(cell)
    /\ UNCHANGED <<trainVars, awsEnv, repos, endpoints, sh, calls>>

\* estimator = Estimator(..., image_name=ecr_image, ...); estimator.fit(data_location):
\* NameError when a name was never bound; the job fails when the image cannot
\* be pulled
Fit ==
    /\ cell = "fit"
    /\ IF py.data_location = "" \/ py.ecr_image = "" \/ py.role = ""
       THEN /\ Stop
            /\ UNCHANGED <<calls, py>>
       ELSE /\ calls' = Append(calls, Call("fit", "platform", py.data_location))
            /\ \E ok \in BOOLEAN :
                 IF ok /\ py.ecr_image \in sh.pushed
                 THEN /\ py' = [py EXCEPT !.trained = TRUE]
                      /\ cell' = After(cell)
                 ELSE /\ Stop
                      /\ UNCHANGED py
    /\ UNCHANGED <<trainVars, awsEnv, repos, endpoints, sh>>

\* predictor = estimator.deploy(1, deploy_type, endpoint_name='tf-byoc-end')
Deploy ==
    /\ cell = "deploy"
    /\ calls' = Append(calls, Call("deploy", "platform", endpoint_name))
    /\ \E ok \in BOOLEAN :
         IF ok /\ py.trained /\ endpoint_name \notin endpoints
         THEN /\ endpoints' = endpoints \cup {endpoint_name}
              /\ py' = [py EXCEPT !.predictor = endpoint_name, !.deployed = @ \cup {endpoint_name}]
              /\ cell' = After(cell)
         ELSE /\ Stop
              /\ UNCHANGED <<py, endpoints>>
    /\ UNCHANGED <<trainVars, awsEnv, repos, sh>>

\* predictor.predict(data): NameError when predictor was never bound
Predict ==
    /\ cell = "predict"
    /\ IF py.predictor = ""
       THEN /\ Stop
            /\ UNCHANGED calls
       ELSE /\ calls' = Append(calls, Call("predict", "platform", py.predictor))
            /\ \E ok \in BOOLEAN :
                 IF ok /\ py.predictor \in endpoints THEN cell' = After(cell) ELSE Stop
    /\ UNCHANGED <<trainVars, awsEnv, repos, endpoints, sh, py>>

\* predictor.delete_endpoint()
DeleteEndpoint ==
    /\ cell = "delete"
    /\ IF py.predictor = ""
       THEN /\ Stop
            /\ UNCHANGED <<calls, endpoints>>
       ELSE /\ calls' = Append(calls, Call("delete_endpoint", "platform", py.predictor))
            /\ \E ok \in BOOLEAN :
                 IF ok /\ py.predictor \in endpoints
                 THEN /\ endpoints' = endpoints \ {py.predictor}
                      /\ cell' = After(cell)
                 ELSE /\ Stop
                      /\ UNCHANGED endpoints
    /\ UNCHANGED <<trainVars, awsEnv, repos, sh, py>>

Next ==
    \/ CheckInput
    \/ LoadS3Keys
    \/ MkDir
    \/ Download
    \/ MoveHyperparameters
    \/ OpenParams
    \/ BuildCmd
    \/ RunPopen
    \/ RunWait
    \/ PrintComplete
    \/ GlobModel
    \/ LoopStep
    \/ Exit0
    \/ Handler
    \/ BuildVars
    \/ BuildDescribe
    \/ BuildCreate
    \/ BuildLogin
    \/ BuildPush
    \/ Role
    \/ FitLocal
    \/ Session
    \/ UploadData
    \/ EcrImage
    \/ Fit
    \/ Deploy
    \/ Predict
    \/ DeleteEndpoint

Spec == Init /\ [][Next]_vars

\* ------------------------------------------------------------- properties
BootPositions == {"boot_keys", "boot_mkdir", "boot_download", "boot_mv"}
TrainRan == pc \notin {"idle", "start"}
OpsOf(cs) == [i \in 1..Len(cs) |-> cs[i].op]
IsPrefix(a, b) == Len(a) <= Len(b) /\ \A i \in 1..Len(a) : a[i] = b[i]
OnPlatform(c) == c.where = "platform"

\* C1: when a step of the main block has raised and the process has ended,
\* /opt/ml/output/failure holds 'Exception during training: ' + the message
\* of the exception + a newline + the traceback, and the exit status is 255.
C1_FailureFileAndExit255 ==
    (exited /\ exc.raised) =>
        /\ failure.written
        /\ (output_path \o "/failure") \in filesAt
        /\ failure.head = "Exception during training: "
        /\ failure.msg = exc.msg
        /\ failure.sep = "\n"
        /\ failure.trc = "Traceback: " \o exc.type
        /\ exitCode = 255

\* a run whose subprocess failed has ended with the failure file written
C1_Witness ==
    /\ exited
    /\ exc.raised
    /\ exc.type = "Exception"
    /\ exc.msg.rc = -9
    /\ failure.written

\* C2: every run that ended with a non-zero exit status, whatever step
\* failed (the bootstrap steps included), has written the failure file.
C2_EveryFailureWritesFile ==
    (exited /\ exitCode # 0) => failure.written

\* C3: the process exits with 0 exactly when the hyperparameters file was
\* read, the subprocess returned 0 and, in EC2 mode, the upload loop visited
\* every entry and made every upload; a run that exits with 0 has no failure
\* file.
UploadsDue == Cardinality({i \in 1..Len(listing) : listing[i].name # "eval"})
C3_ExitZeroIff ==
    exited =>
        /\ (exitCode = 0) <=>
               /\ paramsRead
               /\ procDone
               /\ return_code = 0
               /\ ec2 => (idx = Len(listing) /\ Len(uploads) = UploadsDue)
        /\ exitCode = 0 => (~failure.written /\ ~exc.raised)

\* an EC2 run that uploaded two results and exited with 0
C3_Witness ==
    /\ exited
    /\ exitCode = 0
    /\ ec2
    /\ Len(uploads) = 2

\* C4: for the n pairs of the mapping, in iteration order, the list made by
\* _hyperparameters_to_cmd_args has 2n elements, the (2i-1)-th is the string
\* '--' + key of pair i and the (2i)-th is the value of pair i, unchanged;
\* the empty mapping gives the empty list.
C4_CmdArgsShape ==
    (pc \in {"main_run", "main_wait", "main_print"}) =>
        LET items == training_params.items IN
        /\ Len(cmd_args) = 2 * Len(items)
        /\ \A i \in 1..Len(items) :
              /\ cmd_args[2 * i - 1] = [type |-> "str", text |-> "--" \o items[i][1]]
              /\ cmd_args[2 * i] = items[i][2]
        /\ items = <<>> => cmd_args = <<>>

\* two hyperparameters, the second one a JSON number
C4_Witness ==
    /\ pc = "main_run"
    /\ Len(training_params.items) = 2
    /\ Len(cmd_args) = 4
    /\ cmd_args[4].type = "number"

\* C5: at most one subprocess is started, and its command line is the Python
\* executable, 'cifar10.py', '--model-dir', '/opt/ml/model', then the
\* arguments made from the hyperparameters; so '--model-dir' is the third
\* element and a hyperparameter model-dir comes only after the fourth.
C5_OneCommandLine ==
    /\ launched <= 1
    /\ launched = 1 =>
         /\ train_cmd = <<python_executable, [type |-> "str", text |-> "cifar10.py"],
                          [type |-> "str", text |-> "--model-dir"],
                          [type |-> "str", text |-> "/opt/ml/model"]>> \o cmd_args
         /\ \A i \in 1..Len(train_cmd) :
               train_cmd[i] = [type |-> "str", text |-> "--model-dir"] => (i = 3 \/ i > 4)

\* a subprocess started with a hyperparameter model-dir behind the default
C5_Witness ==
    /\ launched = 1
    /\ \E i \in 5..Len(train_cmd) : train_cmd[i] = [type |-> "str", text |-> "--model-dir"]

\* C6: the bootstrap is entered exactly when /opt/ml/input is no directory
\* at start-up; when it is one, the script never creates a directory, never
\* opens s3keys.json, and downloads and uploads nothing.
C6_BootstrapIffNoInput ==
    TrainRan =>
        /\ (pc \in BootPositions \/ s3keysRead) <=> ~inputAtStart
        /\ inputAtStart =>
              /\ created = <<>>
              /\ downloads = <<>>
              /\ uploads = <<>>
              /\ dirs = PlatformDirs
              /\ ~ec2

\* a run on the platform that trained and exited with 0
C6_Witness ==
    /\ inputAtStart
    /\ exited
    /\ exitCode = 0
    /\ launched = 1

\* C7: in EC2 mode, once the hyperparameters file has been read or the
\* subprocess started, exactly eval.tfrecords, train.tfrecords and
\* validation.tfrecords have been downloaded into
\* /opt/ml/input/data/training, and hyperparameters.json has left
\* /opt/ml/code and is in /opt/ml/input/config.
C7_DataBeforeTraining ==
    (~inputAtStart /\ (paramsRead \/ launched > 0)) =>
        /\ Len(downloads) = 3
        /\ {downloads[i].dest : i \in 1..Len(downloads)} =
               {"/opt/ml/input/data/training/eval.tfrecords",
                "/opt/ml/input/data/training/train.tfrecords",
                "/opt/ml/input/data/training/validation.tfrecords"}
        /\ \A i \in 1..Len(downloads) : downloads[i].dest \in filesAt
        /\ "/opt/ml/input/config/hyperparameters.json" \in filesAt
        /\ "/opt/ml/code/hyperparameters.json" \notin filesAt

\* an EC2 run whose subprocess has been started
C7_Witness ==
    /\ ~inputAtStart
    /\ paramsRead
    /\ launched = 1

\* C8: the calls to the platform are, in order, a prefix of upload_data, fit,
\* deploy, predict, delete_endpoint; the platform fit gets the location the
\* upload returned; predict goes to an endpoint that deploy created and that
\* no earlier call deleted; nothing is called after delete_endpoint.
C8_CallOrder ==
    /\ IsPrefix(OpsOf(SelectSeq(calls, OnPlatform)),
                <<"upload_data", "fit", "deploy", "predict", "delete_endpoint">>)
    /\ \A i \in 1..Len(calls) :
         /\ (calls[i].op = "fit" /\ OnPlatform(calls[i])) =>
                (calls[i].arg = py.data_location /\ py.data_location # "")
         /\ calls[i].op = "predict" =>
                /\ calls[i].arg \in py.deployed
                /\ \A j \in 1..(i - 1) : calls[j].op # "delete_endpoint"
         /\ calls[i].op = "delete_endpoint" => i = Len(calls)

\* the whole notebook ran: five platform calls, the endpoint deleted last
C8_Witness ==
    /\ cell = "end"
    /\ Len(SelectSeq(calls, OnPlatform)) = 5
    /\ calls[Len(calls)].op = "delete_endpoint"
    /\ endpoints = {}

\* C9: once the cell is past the test, create-repository has been called
\* exactly when the repository named by algorithm_name did not exist in the
\* region the image is pushed to, and never when it existed.
C9_CreateIffAbsent ==
    (cell \notin {"idle", "build_vars", "build_describe", "build_create"}) =>
        ((sh.creates = 1) <=> ~sh.existed)

\* C10: the URL the training cell computes is the full name the
\* build-and-push cell tagged and pushed, whatever the account and the
\* region configuration.
C10_SameImageUrl ==
    py.ecr_image # "" => py.ecr_image = sh.fullname

\* C11: once the cell has logged in, the region of the image name and of
\* the ECR login is the configured region when one is defined and us-west-2
\* when none is.
C11_RegionOrDefault ==
    (cell \notin {"idle", "build_vars", "build_describe", "build_create", "build_login"}) =>
        LET r == IF cfgRegion = "" THEN "us-west-2" ELSE cfgRegion IN
        /\ sh.region = r
        /\ sh.fullname = awsAccount \o ".dkr.ecr." \o r \o ".amazonaws.com/"
                            \o "v1-sagemaker-ngc-tf21911-example" \o ":latest"
        /\ sh.login = awsAccount \o ".dkr.ecr." \o r \o ".amazonaws.com"

\* no region is configured and the cell has logged in to us-west-2
C11_Witness ==
    /\ cfgRegion = ""
    /\ cell = "build_push"
    /\ sh.region = "us-west-2"
    /\ sh.login # ""

\* main is past the call _run(train_cmd): the call returned normally
RunReturned == pc \in {"main_print", "main_glob", "main_loop", "main_exit"}
                  \/ (pc \in {"except", "done"} /\ exc.type \in {"S3UploadFailedError", "IndexError"})
                  \/ (pc \in {"except", "done"} /\ exc.type = "FileNotFoundError" /\ servo.missing)
                  \/ (pc = "done" /\ exitCode = 0 /\ exited)

\* C12: _run has returned normally exactly when the subprocess has
\* terminated with return code 0; when the return code is not 0, negative
\* codes included, _run has raised an Exception whose message holds the
\* return code, the command and the captured standard error; while the
\* started subprocess has not terminated, _run has neither returned nor
\* raised.
C12_RunContract ==
    /\ RunReturned <=> (procDone /\ return_code = 0)
    /\ (procDone /\ return_code # 0) =>
          /\ exc.raised
          /\ exc.type = "Exception"
          /\ exc.msg.rc = return_code
          /\ exc.msg.cmd = train_cmd
          /\ exc.msg.err = captured
    /\ (launched = 1 /\ ~procDone) => (pc = "main_wait" /\ ~exc.raised)

\* the subprocess was killed by a signal and _run raised with its output
C12_Witness ==
    /\ procDone
    /\ return_code = -9
    /\ captured = "Traceback"
    /\ exc.msg.err = "Traceback"
    /\ exc.msg.rc = -9

\* 'Training complete.' is among the lines the script has printed
Printed == \E i \in 1..Len(stdout) : stdout[i] = Line("Training complete.")

\* C13: 'Training complete.' is printed only once the training subprocess
\* has terminated with return code 0, and a step that uploads to S3 starts
\* from a state where the line is already printed; when the subprocess has
\* failed nothing is uploaded and the line is not printed.
C13_CompleteThenUploads ==
    /\ [](Printed => (procDone /\ return_code = 0))
    /\ [](uploads # <<>> => Printed)
    /\ [][uploads' # uploads => Printed]_vars
    /\ []((procDone /\ return_code # 0) => (uploads = <<>> /\ ~Printed))

\* a bare-machine run has printed the line and then uploaded two files
C13_Witness ==
    /\ pc = "main_loop"
    /\ ec2
    /\ procDone
    /\ return_code = 0
    /\ Printed
    /\ Len(uploads) = 2

\* the positions of the listing the loop has been through
Visited == 1..idx
\* the upload the script makes for a top-level entry
EntryUpload(entry) ==
    [src |-> "/opt/ml/model/" \o entry.name, bucket |-> s3keys.bucket,
     key |-> "cifar_results/" \o entry.name]
HasUpload(u) == \E j \in 1..Len(uploads) : uploads[j] = u

\* C14: on a bare machine, after a successful training, every entry of the
\* listing of /opt/ml/model that the loop has been through, other than eval
\* and export, has been uploaded to the configured bucket under
\* 'cifar_results/' + its base name; a run that exits 0 has been through
\* the whole listing; /opt/ml/model/eval is never uploaded.
C14_PlainEntriesUploaded ==
    ec2 =>
        /\ \A i \in Visited :
              listing[i].name \notin {"eval", "export"} => HasUpload(EntryUpload(listing[i]))
        /\ (exited /\ exitCode = 0) => Visited = 1..Len(listing)
        /\ \A j \in 1..Len(uploads) :
              /\ uploads[j].src # "/opt/ml/model/eval"
              /\ uploads[j].key # "cifar_results/eval"

\* the run exited 0 after a listing that holds eval between two plain files
C14_Witness ==
    /\ ec2
    /\ exited
    /\ exitCode = 0
    /\ Len(listing) = 3
    /\ listing[2].name = "eval"
    /\ listing[1].name \notin {"eval", "export"}
    /\ listing[3].name \notin {"eval", "export"}
    /\ Len(uploads) = 2

\* where export sits in the listing (0 when it is not there)
ExportAt ==
    IF \E i \in 1..Len(listing) : listing[i].name = "export"
    THEN CHOOSE i \in 1..Len(listing) : listing[i].name = "export"
    ELSE 0
\* the uploads that are not the upload of a top-level entry
ExportUploads ==
    {j \in 1..Len(uploads) : \A i \in 1..Len(listing) : uploads[j].src # PathText(listing[i])}

\* C15: on a bare machine, once the loop is past export, exactly one upload
\* has been made for it: the first .pb file of the first listed
\* sub-directory of Servo, under 'cifar_results/' + its base name, and
\* before that none; when Servo is empty or that sub-directory holds no
\* .pb file, IndexError is raised and the run ends with the failure file
\* and exit code 255; so it does, with FileNotFoundError, when export holds
\* no directory Servo.
C15_ExportUpload ==
    (ec2 /\ ExportAt # 0) =>
        /\ ExportAt \in Visited =>
              /\ Cardinality(ExportUploads) = 1
              /\ \A j \in ExportUploads :
                    /\ uploads[j].src = ServoPath \o "/" \o servo.dirs[1] \o "/" \o files[1].name
                    /\ uploads[j].bucket = s3keys.bucket
                    /\ uploads[j].key = "cifar_results/" \o files[1].name
              /\ \A k \in 1..Len(files) : files[k].dir = ServoPath \o "/" \o servo.dirs[1]
        /\ ExportAt \notin Visited => ExportUploads = {}
        /\ (servo.listed /\ (servo.dirs = <<>> \/ files = <<>>)) =>
              /\ exc.raised
              /\ exc.type = "IndexError"
              /\ ExportUploads = {}
              /\ exited => (failure.written /\ exitCode = 255)
        /\ servo.missing =>
              /\ exc.raised
              /\ exc.type = "FileNotFoundError"
              /\ ExportUploads = {}
              /\ exited => (failure.written /\ exitCode = 255)

\* export was uploaded from the first of two sub-directories holding two
\* .pb files
C15_Witness ==
    /\ ec2
    /\ ExportAt # 0
    /\ ExportAt \in Visited
    /\ Len(servo.dirs) = 2
    /\ Len(files) = 2
    /\ Cardinality(ExportUploads) = 1

\* export held no directory Servo and the run ended as a failure
C15_WitnessNoServo ==
    /\ ec2
    /\ servo.missing
    /\ exited
    /\ exitCode = 255

\* Servo held a sub-directory without any .pb file and the run ended as a
\* failure
C15_WitnessNoPb ==
    /\ ec2
    /\ servo.listed
    /\ servo.dirs # <<>>
    /\ files = <<>>
    /\ exited
    /\ exitCode = 255

\* the lines print(file) has written, in order
FilePrints == SelectSeq(stdout, LAMBDA l : l.list = <<>> /\ l.text \notin {"", "Training complete."})
\* an exception left the loop body in the middle of an iteration
RaisedInLoop ==
    /\ exc.raised
    /\ \/ exc.type \in {"S3UploadFailedError", "IndexError"}
       \/ (exc.type = "FileNotFoundError" /\ servo.missing)

\* C16: the loop goes through the listing of /opt/ml/model in order, once
\* each: the entries print(file) has shown are the first entries of the
\* listing, as many as the loop has begun, wherever export sits and
\* whatever files has been rebound to; a run that exits 0 on a bare machine
\* has been through every entry.
C16_EveryEntryOnce ==
    LET begun == IF RaisedInLoop THEN idx + 1 ELSE idx IN
    /\ Len(FilePrints) = begun
    /\ begun <= Len(listing)
    /\ \A i \in 1..Len(FilePrints) : FilePrints[i].text = PathText(listing[i])
    /\ (exited /\ exitCode = 0 /\ ec2) => idx = Len(listing)

\* export came first of three entries, files was rebound, and the two
\* entries after it were still visited
C16_Witness ==
    /\ ec2
    /\ exited
    /\ exitCode = 0
    /\ Len(listing) = 3
    /\ listing[1].name = "export"
    /\ files # listing
    /\ Len(FilePrints) = 3

====
